---- MODULE Spec2Model ----
(***************************************************************************)
(* The decoder worker of MPD (src/decoder_thread.c: decoder_task and       *)
(* decodeStart) together with the controller that drives it through the    *)
(* shared decoder control record dc, and the two output sinks              *)
(* (AoOutputPlugin.cxx, PipeOutputPlugin.cxx).                             *)
(*                                                                         *)
(* The worker is a sequential process; every access to a field of dc that  *)
(* the controller can also access is a step of its own, so that every      *)
(* interleaving of the two threads is explored.                            *)
(***************************************************************************)
EXTENDS Integers, Sequences, FiniteSets, TLC

\* ------------------------------------------------------------------ bounds

\* how many commands (START, SEEK, STOP) the controller issues in one run
MaxCmds == 2
\* how many input_stream_buffer calls a stream needs at most to become ready
MaxBuffer == 2

\* ------------------------------------------------------- program constants

\* decoder_thread.c:75,150 (value from decoder_control.h; any value > 0
\* behaves alike, since plugins return 0 or a negative number)
DECODE_ERROR_UNKTYPE == 10
\* decoder_thread.c:127
INPUT_PLUGIN_STREAM_FILE == 1
\* decoder_thread.c:83
INPUT_PLUGIN_STREAM_URL == 2

\* NULL pointer: no plugin / no song / no MIME type
NoPlugin == 0
NoSong == [file |-> FALSE, url |-> "", suffix |-> ""]
NoMime == ""

\* ------------------------------------------------------------------- songs

\* A song reference: a local file or a URL; suffix is what getSuffix() finds
\* in its transport string ("" when there is none).
Songs ==
    { [file |-> TRUE,  url |-> "a.ogg",            suffix |-> "ogg"],
      [file |-> FALSE, url |-> "http://h/s.ogg",   suffix |-> "ogg"],
      [file |-> FALSE, url |-> "http://h/stream",  suffix |-> ""] }

song_is_file(s) == s.file

\* map_song_fs / song_get_url: the transport string of the song
TransportString(s) == IF song_is_file(s) THEN <<"fs", s.url>> ELSE <<"url", s.url>>

\* getSuffix(path_max_fs)
getSuffix(s) == s.suffix

\* MIME types an input stream may announce once it is ready
Mimes == {NoMime, "audio/mpeg", "application/ogg"}

\* values a plugin's stream_decode / file_decode returns: 0 or a negative error
PluginRets == {0, -1}

\* --------------------------------------------------------- plugin registry

\* C's a & b for a single-bit mask b (1 or 2) and a in 0..3
BitAnd(a, b) == IF (a \div b) % 2 = 1 THEN b ELSE 0

\* C's logical negation: !a
LogicalNot(a) == IF a = 0 THEN 1 ELSE 0

\* the mp3 plugin: it supports streams (decoder_thread.c:115)
mp3Plugin ==
    [name |-> "mp3", mime |-> "audio/mpeg", suffix |-> "mp3",
     stream_types |-> 3, try_decode |-> FALSE,
     stream_decode |-> TRUE, file_decode |-> TRUE]

\* the plugins for ogg named n, with every combination of capabilities,
\* probe and entry points
OggDescs(n) ==
    { [name |-> n, mime |-> "application/ogg", suffix |-> "ogg",
       stream_types |-> t, try_decode |-> td,
       stream_decode |-> sd, file_decode |-> fd] :
         t \in 0..3, td \in BOOLEAN, sd \in BOOLEAN, fd \in BOOLEAN }

\* registries: plugins in registration order, no name registered twice
Registries ==
    { <<>>, <<mp3Plugin>> }
    \cup { <<p>> : p \in OggDescs("vorbis") }
    \cup { <<mp3Plugin, p>> : p \in OggDescs("vorbis") }
    \cup { <<p, mp3Plugin>> : p \in OggDescs("vorbis") }
    \cup { <<p, q>> : p \in OggDescs("vorbis"), q \in OggDescs("oggflac") }

VARIABLES
    \* the shared decoder control record dc
    command, state, error, next_song, current_song, seekable,
    \* the two latches: dc.notify (worker waits) and pc.notify (controller waits)
    dcNotify, pcNotify,
    \* the worker: its position and the locals of decodeStart
    pc, song, path_max_fs, inStream, ret, plugin, next, close_instream,
    decoder, phase,
    \* the plugin registry (immutable after start)
    registry,
    \* the controller: its position and the number of commands issued
    cpc, cmds,
    \* history of the current / last decodeStart invocation
    errorAtEntry, closes, invoked, probes, bufCalls, exitPath, sigSinceRet,
    stopDuring, stopAt, startPending,
    \* the output sink: which plugin, and the fields of AoOutput / PipeOutput
    sinkKind, write_size, audio_format, frame_size, max_size, handle,
    releases, lastPlay,
    \* the constructor of the ao sink: the entries of the configured "options"
    \* value, what of the value is still to be iterated, the ao_option list
    \* built so far, and the constructor's position
    optionEntries, optionRest, options, ctor

dcVars == <<command, state, error, next_song, current_song, seekable>>
latchVars == <<dcNotify, pcNotify>>
localVars == <<song, path_max_fs, inStream, ret, plugin, next, close_instream,
               decoder, phase>>
histVars == <<errorAtEntry, closes, invoked, probes, bufCalls, exitPath,
              sigSinceRet, stopDuring, stopAt, startPending>>
ctlVars == <<cpc, cmds>>
ctorVars == <<optionEntries, optionRest, options, ctor>>
sinkVars == <<sinkKind, write_size, audio_format, frame_size, max_size, handle,
              releases, lastPlay, ctorVars>>
\* what no step of the decoder changes: the registry and the sink
fixedVars == <<registry, sinkVars>>
decoderVars == <<dcVars, latchVars, pc, localVars, registry, ctlVars, histVars>>
vars == <<decoderVars, sinkVars>>


\* the n-th (0-based) element of a set of registry positions, NULL past the end
NthMatch(S, n) ==
    IF n < Cardinality(S)
    THEN CHOOSE i \in S : Cardinality({j \in S : j < i}) = n
    ELSE NoPlugin

\* decoder_plugin_from_mime_type(mime, next): candidates in registration order
decoder_plugin_from_mime_type(mime, n) ==
    IF mime = NoMime THEN NoPlugin
    ELSE NthMatch({i \in 1..Len(registry) : registry[i].mime = mime}, n)

\* decoder_plugin_from_suffix(suffix, next): candidates in registration order
decoder_plugin_from_suffix(s, n) ==
    IF s = "" THEN NoPlugin
    ELSE NthMatch({i \in 1..Len(registry) : registry[i].suffix = s}, n)

\* decoder_plugin_from_name(name)
decoder_plugin_from_name(name) ==
    NthMatch({i \in 1..Len(registry) : registry[i].name = name}, 0)

\* ------------------------------------------------------------------- Init

\* an input stream that is not open
ClosedStream == [open |-> FALSE, ready |-> FALSE, seekable |-> FALSE, mime |-> NoMime]

\* the uninitialised struct decoder on the stack of decodeStart (line 33)
UninitDecoder == [seeking |-> "uninit", plugin |-> "uninit"]

\* the locals of decodeStart while it is not running
LocalsIdle ==
    /\ song = NoSong
    /\ path_max_fs = <<>>
    /\ inStream = ClosedStream
    /\ ret = 0
    /\ plugin = NoPlugin
    /\ next = 0
    /\ close_instream = TRUE
    /\ decoder = UninitDecoder
    /\ phase = "none"

\* decodeStart returns: its locals die
LocalsDie ==
    /\ song' = NoSong
    /\ path_max_fs' = <<>>
    /\ inStream' = ClosedStream
    /\ ret' = 0
    /\ plugin' = NoPlugin
    /\ next' = 0
    /\ close_instream' = TRUE
    /\ decoder' = UninitDecoder
    /\ phase' = "none"

\* no STOP has been written during the readiness loop of this decodeStart
NoStopAt == [set |-> FALSE, calls |-> 0, error |-> "NONE"]

\* dc after dc_init, both latches clear, the worker at the top of its loop
InitCommon ==
    /\ command = "NONE"
    /\ state = "STOP"
    /\ error = "NONE"
    /\ next_song = NoSong
    /\ current_song = NoSong
    /\ seekable = FALSE
    /\ dcNotify = FALSE
    /\ pcNotify = FALSE
    /\ pc = "top"
    /\ LocalsIdle
    /\ cpc = "idle"
    /\ cmds = 0
    /\ errorAtEntry = "NONE"
    /\ closes = 0
    /\ invoked = <<>>
    /\ probes = <<>>
    /\ bufCalls = 0
    /\ exitPath = "none"
    /\ sigSinceRet = FALSE
    /\ stopDuring = FALSE
    /\ stopAt = NoStopAt
    /\ startPending = FALSE

\* the registries of the protocol specification: none, the mp3 plugin alone,
\* and a probing stream plugin registered before mp3
vorbisPlugin ==
    [name |-> "vorbis", mime |-> "application/ogg", suffix |-> "ogg",
     stream_types |-> 3, try_decode |-> TRUE,
     stream_decode |-> TRUE, file_decode |-> FALSE]

oggflacPlugin ==
    [name |-> "oggflac", mime |-> "application/ogg", suffix |-> "ogg",
     stream_types |-> 1, try_decode |-> FALSE,
     stream_decode |-> FALSE, file_decode |-> TRUE]

ProtocolRegistries ==
    { <<>>, <<vorbisPlugin, mp3Plugin>>, <<oggflacPlugin>> }

\* no output sink has been created
NoFormat == [format |-> "none", channels |-> 0]
NoPlay == [len |-> 0, submitted |-> 0, accepted |-> 0, ret |-> 0, threw |-> FALSE]

\* nothing left to iterate of an "options" value
NoRest == [more |-> FALSE, str |-> <<>>]

\* no "options" were configured (line 135: value == nullptr) and the
\* constructor, if any, has finished
NoOptions(c) ==
    /\ optionEntries = <<>>
    /\ optionRest = NoRest
    /\ options = <<>>
    /\ ctor = c

NoSink ==
    /\ NoOptions("none")
    /\ sinkKind = "none"
    /\ write_size = 0
    /\ audio_format = NoFormat
    /\ frame_size = 0
    /\ max_size = 0
    /\ handle = "none"
    /\ releases = 0
    /\ lastPlay = NoPlay

Init ==
    /\ InitCommon
    /\ registry \in ProtocolRegistries
    /\ NoSink

\* ------------------------------------------------- decoder_task: idle loop

\* lines 167-177: the assertion, then one look at dc.command
W_Top ==
    /\ pc = "top"
    /\ IF command \in {"START", "SEEK"}
       THEN /\ pc' = "ds_song"
            /\ errorAtEntry' = error
            /\ closes' = 0
            /\ invoked' = <<>>
            /\ probes' = <<>>
            /\ bufCalls' = 0
            /\ exitPath' = "running"
            /\ stopDuring' = FALSE
            /\ stopAt' = NoStopAt
            /\ startPending' = FALSE
            /\ UNCHANGED sigSinceRet
       ELSE /\ pc' = IF command = "STOP" THEN "clr" ELSE "wait"
            /\ UNCHANGED histVars
    /\ UNCHANGED <<dcVars, latchVars, localVars, fixedVars, ctlVars>>

\* line 174: dc.command = DECODE_COMMAND_NONE
W_ClearStop ==
    /\ pc = "clr"
    /\ command' = "NONE"
    /\ pc' = "clr_sig"
    /\ UNCHANGED <<state, error, next_song, current_song, seekable, latchVars,
                   localVars, fixedVars, ctlVars, histVars>>

\* line 175: notify_signal(&pc.notify)
W_StopSignal ==
    /\ pc = "clr_sig"
    /\ pcNotify' = TRUE
    /\ sigSinceRet' = TRUE
    /\ pc' = "top"
    /\ UNCHANGED <<dcVars, dcNotify, localVars, fixedVars, ctlVars, errorAtEntry,
                   closes, invoked, probes, bufCalls, exitPath, stopDuring, stopAt, startPending>>

\* line 177: notify_wait(&dc.notify) returns once the latch is set, and clears it
W_Wait ==
    /\ pc = "wait"
    /\ dcNotify
    /\ dcNotify' = FALSE
    /\ pc' = "wait_sig"
    /\ UNCHANGED <<dcVars, pcNotify, localVars, fixedVars, ctlVars, histVars>>

\* W_WaitSignal with the notify_signal left out
W_WaitSignal_NoSignal ==
    /\ pc = "wait_sig"
    /\ pc' = "top"
    /\ UNCHANGED <<dcVars, latchVars, localVars, fixedVars, ctlVars, histVars>>

\* line 178: notify_signal(&pc.notify)
W_WaitSignal ==
    /\ pc = "wait_sig"
    /\ pcNotify' = TRUE
    /\ sigSinceRet' = TRUE
    /\ pc' = "top"
    /\ UNCHANGED <<dcVars, dcNotify, localVars, fixedVars, ctlVars, errorAtEntry,
                   closes, invoked, probes, bufCalls, exitPath, stopDuring, stopAt, startPending>>

\* ----------------------------------------------- decodeStart: lines 32-73

\* lines 32-43: song = dc.next_song, and its transport string
DS_ReadSong ==
    /\ pc = "ds_song"
    /\ song' = next_song
    /\ path_max_fs' = TransportString(next_song)
    /\ pc' = "ds_latch"
    /\ UNCHANGED <<dcVars, latchVars, inStream, ret, plugin, next,
                   close_instream, decoder, phase, fixedVars, ctlVars, histVars>>

\* line 45: dc.current_song = dc.next_song
DS_Latch ==
    /\ pc = "ds_latch"
    /\ current_song' = next_song
    /\ pc' = "ds_open"
    /\ UNCHANGED <<command, state, error, next_song, seekable, latchVars,
                   localVars, fixedVars, ctlVars, histVars>>

\* what input_stream_open leaves in inStream: a file is ready at once, a URL
\* stream may need buffering; seekable and mime are known once it is ready
OpenedStreams(s) ==
    { [open |-> TRUE, ready |-> TRUE, seekable |-> sk, mime |-> m] :
        sk \in BOOLEAN, m \in IF song_is_file(s) THEN {NoMime} ELSE Mimes }
    \cup
    IF song_is_file(s) THEN {}
    ELSE { [open |-> TRUE, ready |-> FALSE, seekable |-> FALSE, mime |-> NoMime] }

\* lines 46-51: input_stream_open; on failure dc.error = DECODE_ERROR_FILE and
\* goto stop_no_close
DS_Open ==
    /\ pc = "ds_open"
    /\ \/ /\ error' = "FILE"
          /\ exitPath' = "open_fail"
          /\ pc' = "stop_nc"
          /\ UNCHANGED <<inStream, decoder>>
       \/ /\ inStream' \in OpenedStreams(song)
          /\ decoder' = [decoder EXCEPT !.seeking = FALSE]
          /\ pc' = "ds_state"
          /\ UNCHANGED <<error, exitPath>>
    /\ UNCHANGED <<command, state, next_song, current_song, seekable, latchVars,
                   song, path_max_fs, ret, plugin, next, close_instream, phase,
                   fixedVars, ctlVars, errorAtEntry, closes, invoked, probes, bufCalls,
                   sigSinceRet, stopDuring, stopAt, startPending>>

\* line 53: dc.state = DECODE_STATE_START
DS_AnnounceState ==
    /\ pc = "ds_state"
    /\ state' = "START"
    /\ pc' = "ds_cmd"
    /\ UNCHANGED <<command, error, next_song, current_song, seekable, latchVars,
                   localVars, fixedVars, ctlVars, histVars>>

\* line 54: dc.command = DECODE_COMMAND_NONE
DS_AnnounceCommand ==
    /\ pc = "ds_cmd"
    /\ command' = "NONE"
    /\ pc' = "ds_sig"
    /\ UNCHANGED <<state, error, next_song, current_song, seekable, latchVars,
                   localVars, fixedVars, ctlVars, histVars>>

\* line 55: notify_signal(&pc.notify)
DS_AnnounceSignal ==
    /\ pc = "ds_sig"
    /\ pcNotify' = TRUE
    /\ pc' = "ready"
    /\ UNCHANGED <<dcVars, dcNotify, localVars, fixedVars, ctlVars, histVars>>

\* lines 60-62: the loop test, and the look at dc.command before each buffer call
DS_Ready ==
    /\ pc = "ready"
    /\ IF inStream.ready
       THEN pc' = "seekable" /\ UNCHANGED exitPath
       ELSE IF command # "NONE"
            THEN pc' = "stop" /\ exitPath' = "ready_abort"
            ELSE pc' = "buffer" /\ UNCHANGED exitPath
    /\ UNCHANGED <<dcVars, latchVars, localVars, fixedVars, ctlVars, errorAtEntry,
                   closes, invoked, probes, bufCalls, sigSinceRet, stopDuring, stopAt,
                   startPending>>

\* what input_stream_buffer may do: fail (a negative result), or make progress
\* (a positive result), after which the stream may be ready; the last of
\* MaxBuffer calls does not leave the stream unready
BufferOutcomes ==
    { [ret |-> -1, stream |-> inStream] }
    \cup
    { [ret |-> 1,
       stream |-> [open |-> TRUE, ready |-> TRUE, seekable |-> sk, mime |-> m]] :
         sk \in BOOLEAN, m \in Mimes }
    \cup
    IF bufCalls + 1 < MaxBuffer THEN { [ret |-> 1, stream |-> inStream] } ELSE {}

\* DS_Buffer that also copies the stream's seekable flag into dc.seekable
DS_Buffer_WritesSeekable ==
    /\ pc = "buffer"
    /\ \E o \in BufferOutcomes :
          /\ ret' = o.ret
          /\ inStream' = o.stream
          /\ seekable' = o.stream.seekable
          /\ IF o.ret < 0
             THEN pc' = "stop" /\ exitPath' = "buf_err"
             ELSE pc' = "ready" /\ UNCHANGED exitPath
    /\ bufCalls' = bufCalls + 1
    /\ UNCHANGED <<command, state, error, next_song, current_song, latchVars,
                   song, path_max_fs, plugin, next, close_instream, decoder,
                   phase, fixedVars, ctlVars, errorAtEntry, closes, invoked, probes,
                   sigSinceRet, stopDuring, stopAt, startPending>>

\* lines 64-66: ret = input_stream_buffer(&inStream); if (ret < 0) goto stop
DS_Buffer ==
    /\ pc = "buffer"
    /\ \E o \in BufferOutcomes :
          /\ ret' = o.ret
          /\ inStream' = o.stream
          /\ IF o.ret < 0
             THEN pc' = "stop" /\ exitPath' = "buf_err"
             ELSE pc' = "ready" /\ UNCHANGED exitPath
    /\ bufCalls' = bufCalls + 1
    /\ UNCHANGED <<dcVars, latchVars, song, path_max_fs, plugin, next,
                   close_instream, decoder, phase, fixedVars, ctlVars,
                   errorAtEntry, closes, invoked, probes, sigSinceRet, stopDuring, stopAt,
                   startPending>>

\* line 70: dc.seekable = inStream.seekable
DS_Seekable ==
    /\ pc = "seekable"
    /\ seekable' = inStream.seekable
    /\ pc' = "stop_chk"
    /\ UNCHANGED <<command, state, error, next_song, current_song, latchVars,
                   localVars, fixedVars, ctlVars, histVars>>

\* DS_StopCheck without the test of dc.command
DS_StopCheck_Skipped ==
    /\ pc = "stop_chk"
    /\ ret' = DECODE_ERROR_UNKTYPE
    /\ next' = 0
    /\ pc' = IF song_is_file(song) THEN "file" ELSE "mime"
    /\ UNCHANGED <<dcVars, latchVars, song, path_max_fs, inStream, plugin,
                   close_instream, decoder, phase, fixedVars, ctlVars, histVars>>

\* lines 72-77 (124): the second STOP check, then ret = DECODE_ERROR_UNKTYPE
\* and the choice of the branch by song_is_file(song)
DS_StopCheck ==
    /\ pc = "stop_chk"
    /\ IF command = "STOP"
       THEN /\ pc' = "stop"
            /\ exitPath' = "stop2"
            /\ UNCHANGED <<ret, next>>
       ELSE /\ ret' = DECODE_ERROR_UNKTYPE
            /\ next' = 0
            /\ pc' = IF song_is_file(song) THEN "file" ELSE "mime"
            /\ UNCHANGED exitPath
    /\ UNCHANGED <<dcVars, latchVars, song, path_max_fs, inStream, plugin,
                   close_instream, decoder, phase, fixedVars, ctlVars,
                   errorAtEntry, closes, invoked, probes, bufCalls, sigSinceRet,
                   stopDuring, stopAt, startPending>>

\* ---------------------------------------------- decodeStart: the dispatch

\* SkipUrl without the test of the URL-capable bit
SkipUrl_NoCapabilityTest(pl) ==
    ~pl.stream_decode

\* lines 81-84: a URL candidate is passed over when it has no stream_decode or
\* is not URL-capable
SkipUrl(pl) ==
    \/ ~pl.stream_decode
    \/ BitAnd(pl.stream_types, INPUT_PLUGIN_STREAM_URL) = 0

\* line 127: if (!plugin->stream_types & INPUT_PLUGIN_STREAM_FILE) continue;
\* the negation binds tighter than the &
SkipFile(pl) ==
    BitAnd(LogicalNot(pl.stream_types), INPUT_PLUGIN_STREAM_FILE) # 0

\* lines 85-86: the results of "try_decode == NULL || try_decode(&inStream)"
TryResults(pl) == IF pl.try_decode THEN BOOLEAN ELSE {TRUE}

\* input_stream_close(&inStream)
CloseStream(s) == [s EXCEPT !.open = FALSE]

\* the record of one call of a plugin's decode entry point: which plugin, which
\* entry point, whether the stream was open, and decoder.plugin as passed
Invocation(p, entry, strm, dec) ==
    [plugin |-> p, entry |-> entry, open |-> strm.open, ctx |-> dec.plugin]

\* lines 85-86, 102-103, 130-131: the probes made so far, with the call of
\* try_decode of plugin p (if it has one) and its result r added
Probed(p, ph, strm, r) ==
    IF registry[p].try_decode
    THEN Append(probes, [plugin |-> p, phase |-> ph, open |-> strm.open,
                         result |-> r])
    ELSE probes

\* line 88: &decoder as the MIME loop passes it: nothing has assigned
\* decoder.plugin (line 33 declares decoder without an initialiser), so the
\* field holds whatever the stack held, a null pointer or any plugin
PassedDecoders ==
    { [decoder EXCEPT !.plugin = g] : g \in 0..Len(registry) }

\* lines 80-90: one round of the MIME loop
DS_MimeLoop ==
    /\ pc = "mime"
    /\ IF ret = 0
       THEN /\ pc' = "suffix_chk"
            /\ UNCHANGED <<plugin, next, phase, invoked, probes>>
       ELSE LET p == decoder_plugin_from_mime_type(inStream.mime, next) IN
            /\ plugin' = p
            /\ next' = next + 1
            /\ IF p = NoPlugin
               THEN pc' = "suffix_chk" /\ UNCHANGED <<phase, invoked, probes>>
               ELSE IF SkipUrl(registry[p])
               THEN pc' = "mime" /\ UNCHANGED <<phase, invoked, probes>>
               ELSE \E r \in TryResults(registry[p]) :
                      /\ probes' = Probed(p, "mime", inStream, r)
                      /\ IF ~r
                         THEN pc' = "mime" /\ UNCHANGED <<phase, invoked>>
                         ELSE /\ \E d \in PassedDecoders :
                                   invoked' = Append(invoked,
                                     Invocation(p, "stream", inStream, d))
                              /\ phase' = "mime"
                              /\ pc' = "in_plugin"
    /\ UNCHANGED <<dcVars, latchVars, song, path_max_fs, inStream, ret,
                   close_instream, decoder, fixedVars, ctlVars, errorAtEntry,
                   closes, bufCalls, exitPath, sigSinceRet, stopDuring, stopAt,
                   startPending>>

\* lines 93-95: if (plugin == NULL) start the suffix loop
DS_SuffixCheck ==
    /\ pc = "suffix_chk"
    /\ IF plugin = NoPlugin
       THEN next' = 0 /\ pc' = "suffix"
       ELSE pc' = "mp3_chk" /\ UNCHANGED next
    /\ UNCHANGED <<dcVars, latchVars, song, path_max_fs, inStream, ret, plugin,
                   close_instream, decoder, phase, fixedVars, ctlVars, histVars>>

\* lines 96-109: one round of the suffix loop of the URL branch
DS_SuffixLoop ==
    /\ pc = "suffix"
    /\ IF ret = 0
       THEN /\ pc' = "mp3_chk"
            /\ UNCHANGED <<plugin, next, phase, invoked, probes, decoder>>
       ELSE LET p == decoder_plugin_from_suffix(getSuffix(song), next) IN
            /\ plugin' = p
            /\ next' = next + 1
            /\ IF p = NoPlugin
               THEN /\ pc' = "mp3_chk"
                    /\ UNCHANGED <<phase, invoked, probes, decoder>>
               ELSE IF SkipUrl(registry[p])
               THEN /\ pc' = "suffix"
                    /\ UNCHANGED <<phase, invoked, probes, decoder>>
               ELSE \E r \in TryResults(registry[p]) :
                      /\ probes' = Probed(p, "suffix", inStream, r)
                      /\ IF ~r
                         THEN /\ pc' = "suffix"
                              /\ UNCHANGED <<phase, invoked, decoder>>
                         ELSE /\ decoder' = [decoder EXCEPT !.plugin = p]
                              /\ invoked' = Append(invoked,
                                     Invocation(p, "stream", inStream, decoder'))
                              /\ phase' = "suffix"
                              /\ pc' = "in_plugin"
    /\ UNCHANGED <<dcVars, latchVars, song, path_max_fs, inStream, ret,
                   close_instream, fixedVars, ctlVars, errorAtEntry, closes,
                   bufCalls, exitPath, sigSinceRet, stopDuring, stopAt, startPending>>

\* lines 114-122: the mp3 fallback, without capability check or probe
DS_Mp3Fallback ==
    /\ pc = "mp3_chk"
    /\ IF plugin = NoPlugin
       THEN LET p == decoder_plugin_from_name("mp3") IN
            /\ plugin' = p
            /\ IF p # NoPlugin
               THEN /\ decoder' = [decoder EXCEPT !.plugin = p]
                    /\ invoked' = Append(invoked,
                           Invocation(p, "stream", inStream, decoder'))
                    /\ phase' = "mp3"
                    /\ pc' = "in_plugin"
               ELSE pc' = "classify" /\ UNCHANGED <<decoder, invoked, phase>>
       ELSE pc' = "classify" /\ UNCHANGED <<plugin, decoder, invoked, phase>>
    /\ UNCHANGED <<dcVars, latchVars, song, path_max_fs, inStream, ret, next,
                   close_instream, fixedVars, ctlVars, errorAtEntry, closes,
                   probes, bufCalls, exitPath, sigSinceRet, stopDuring, stopAt,
                   startPending>>

\* DS_FileLoop with file_decode called before input_stream_close: the stream
\* is still open when the plugin is entered
DS_FileLoop_CloseLate ==
    /\ pc = "file"
    /\ IF ret = 0
       THEN /\ pc' = "classify"
            /\ UNCHANGED <<plugin, next, phase, invoked, probes, decoder,
                           inStream, close_instream, closes>>
       ELSE LET p == decoder_plugin_from_suffix(getSuffix(song), next) IN
            /\ plugin' = p
            /\ next' = next + 1
            /\ IF p = NoPlugin
               THEN /\ pc' = "classify"
                    /\ UNCHANGED <<phase, invoked, probes, decoder, inStream,
                                   close_instream, closes>>
               ELSE IF SkipFile(registry[p])
               THEN /\ pc' = "file"
                    /\ UNCHANGED <<phase, invoked, probes, decoder, inStream,
                                   close_instream, closes>>
               ELSE \E r \in TryResults(registry[p]) :
                      /\ probes' = Probed(p, "file", inStream, r)
                      /\ IF ~r
                         THEN /\ pc' = "file"
                              /\ UNCHANGED <<phase, invoked, decoder, inStream,
                                             close_instream, closes>>
                         ELSE IF registry[p].file_decode
                         THEN /\ inStream' = CloseStream(inStream)
                              /\ closes' = closes + 1
                              /\ close_instream' = FALSE
                              /\ decoder' = [decoder EXCEPT !.plugin = p]
                              /\ invoked' = Append(invoked,
                                     Invocation(p, "file", inStream, decoder'))
                              /\ phase' = "file"
                              /\ pc' = "in_plugin"
                         ELSE IF registry[p].stream_decode
                         THEN /\ decoder' = [decoder EXCEPT !.plugin = p]
                              /\ invoked' = Append(invoked,
                                     Invocation(p, "stream", inStream, decoder'))
                              /\ phase' = "file"
                              /\ pc' = "in_plugin"
                              /\ UNCHANGED <<inStream, close_instream, closes>>
                         ELSE /\ pc' = "file"
                              /\ UNCHANGED <<phase, invoked, decoder, inStream,
                                             close_instream, closes>>
    /\ UNCHANGED <<dcVars, latchVars, song, path_max_fs, ret, fixedVars, ctlVars,
                   errorAtEntry, bufCalls, exitPath, sigSinceRet, stopDuring, stopAt,
                   startPending>>

\* lines 124-147: one round of the suffix loop of the file branch
DS_FileLoop ==
    /\ pc = "file"
    /\ IF ret = 0
       THEN /\ pc' = "classify"
            /\ UNCHANGED <<plugin, next, phase, invoked, probes, decoder,
                           inStream, close_instream, closes>>
       ELSE LET p == decoder_plugin_from_suffix(getSuffix(song), next) IN
            /\ plugin' = p
            /\ next' = next + 1
            /\ IF p = NoPlugin
               THEN /\ pc' = "classify"
                    /\ UNCHANGED <<phase, invoked, probes, decoder, inStream,
                                   close_instream, closes>>
               ELSE IF SkipFile(registry[p])
               THEN /\ pc' = "file"
                    /\ UNCHANGED <<phase, invoked, probes, decoder, inStream,
                                   close_instream, closes>>
               ELSE \E r \in TryResults(registry[p]) :
                      /\ probes' = Probed(p, "file", inStream, r)
                      /\ IF ~r
                         THEN /\ pc' = "file"
                              /\ UNCHANGED <<phase, invoked, decoder, inStream,
                                             close_instream, closes>>
                         ELSE IF registry[p].file_decode
                         THEN /\ inStream' = CloseStream(inStream)
                              /\ closes' = closes + 1
                              /\ close_instream' = FALSE
                              /\ decoder' = [decoder EXCEPT !.plugin = p]
                              /\ invoked' = Append(invoked,
                                     Invocation(p, "file", inStream', decoder'))
                              /\ phase' = "file"
                              /\ pc' = "in_plugin"
                         ELSE IF registry[p].stream_decode
                         THEN /\ decoder' = [decoder EXCEPT !.plugin = p]
                              /\ invoked' = Append(invoked,
                                     Invocation(p, "stream", inStream, decoder'))
                              /\ phase' = "file"
                              /\ pc' = "in_plugin"
                              /\ UNCHANGED <<inStream, close_instream, closes>>
                         ELSE /\ pc' = "file"
                              /\ UNCHANGED <<phase, invoked, decoder, inStream,
                                             close_instream, closes>>
    /\ UNCHANGED <<dcVars, latchVars, song, path_max_fs, ret, fixedVars, ctlVars,
                   errorAtEntry, bufCalls, exitPath, sigSinceRet, stopDuring, stopAt,
                   startPending>>

\* AfterCall with continue in the place of the break of the two URL loops
AfterCall_Continue(ph) ==
    CASE ph = "mime" -> "mime"
      [] ph = "suffix" -> "suffix"
      [] OTHER -> "classify"

\* where the break after a plugin call leads: lines 93, 114, 150
AfterCall(ph) ==
    CASE ph = "mime" -> "suffix_chk"
      [] ph = "suffix" -> "mp3_chk"
      [] OTHER -> "classify"

\* lines 88, 106, 119, 138, 143: the plugin's decode entry point returns
DS_PluginReturn ==
    /\ pc = "in_plugin"
    /\ ret' \in PluginRets
    /\ pc' = AfterCall(phase)
    /\ UNCHANGED <<dcVars, latchVars, song, path_max_fs, inStream, plugin, next,
                   close_instream, decoder, phase, fixedVars, ctlVars, histVars>>

\* the plugin, through the decoder API, reports that decoding has begun:
\* dc.state = DECODE_STATE_DECODE and the controller is signalled
P_Initialized ==
    /\ pc = "in_plugin"
    /\ state = "START"
    /\ state' = "DECODE"
    /\ pcNotify' = TRUE
    /\ UNCHANGED <<command, error, next_song, current_song, seekable, dcNotify,
                   pc, localVars, fixedVars, ctlVars, histVars>>

\* the active plugin honours a SEEK and acknowledges it
P_Seek ==
    /\ pc = "in_plugin"
    /\ state = "DECODE"
    /\ command = "SEEK"
    /\ command' = "NONE"
    /\ pcNotify' = TRUE
    /\ UNCHANGED <<state, error, next_song, current_song, seekable, dcNotify,
                   pc, localVars, fixedVars, ctlVars, histVars>>

\* Classify with the two error codes exchanged
Classify_Swapped(r, e) ==
    IF r < 0 \/ r = DECODE_ERROR_UNKTYPE
    THEN IF r # DECODE_ERROR_UNKTYPE THEN "UNKTYPE" ELSE "FILE"
    ELSE e

\* lines 150-155: what dc.error holds after the classification of ret
Classify(r, e) ==
    IF r < 0 \/ r = DECODE_ERROR_UNKTYPE
    THEN IF r # DECODE_ERROR_UNKTYPE THEN "FILE" ELSE "UNKTYPE"
    ELSE e

\* lines 150-155
DS_Classify ==
    /\ pc = "classify"
    /\ error' = Classify(ret, error)
    /\ exitPath' = "dispatch"
    /\ pc' = "stop"
    /\ UNCHANGED <<command, state, next_song, current_song, seekable, latchVars,
                   localVars, fixedVars, ctlVars, errorAtEntry, closes, invoked, probes,
                   bufCalls, sigSinceRet, stopDuring, stopAt, startPending>>

\* DS_Close without the test of close_instream
DS_Close_Always ==
    /\ pc = "stop"
    /\ inStream' = CloseStream(inStream)
    /\ closes' = closes + 1
    /\ pc' = "stop_nc"
    /\ UNCHANGED <<dcVars, latchVars, song, path_max_fs, ret, plugin, next,
                   close_instream, decoder, phase, fixedVars, ctlVars,
                   errorAtEntry, invoked, probes, bufCalls, exitPath, sigSinceRet,
                   stopDuring, stopAt, startPending>>

\* lines 157-159, label stop: if (close_instream) input_stream_close(&inStream)
DS_Close ==
    /\ pc = "stop"
    /\ IF close_instream
       THEN inStream' = CloseStream(inStream) /\ closes' = closes + 1
       ELSE UNCHANGED <<inStream, closes>>
    /\ pc' = "stop_nc"
    /\ UNCHANGED <<dcVars, latchVars, song, path_max_fs, ret, plugin, next,
                   close_instream, decoder, phase, fixedVars, ctlVars,
                   errorAtEntry, invoked, probes, bufCalls, exitPath, sigSinceRet,
                   stopDuring, stopAt, startPending>>

\* DS_StateStop with the write of dc.state left out
DS_StateStop_Skipped ==
    /\ pc = "stop_nc"
    /\ pc' = "stop_cmd"
    /\ UNCHANGED <<dcVars, latchVars, localVars, fixedVars, ctlVars, histVars>>

\* line 161, label stop_no_close: dc.state = DECODE_STATE_STOP
DS_StateStop ==
    /\ pc = "stop_nc"
    /\ state' = "STOP"
    /\ pc' = "stop_cmd"
    /\ UNCHANGED <<command, error, next_song, current_song, seekable, latchVars,
                   localVars, fixedVars, ctlVars, histVars>>

\* lines 162-163: dc.command = DECODE_COMMAND_NONE, and decodeStart returns
\* (its locals die) to the top of the loop of decoder_task
DS_CommandNone ==
    /\ pc = "stop_cmd"
    /\ command' = "NONE"
    /\ pc' = "top"
    /\ LocalsDie
    /\ sigSinceRet' = FALSE
    /\ UNCHANGED <<state, error, next_song, current_song, seekable, latchVars,
                   fixedVars, ctlVars, errorAtEntry, closes, invoked, probes, bufCalls,
                   exitPath, stopDuring, stopAt, startPending>>

\* ------------------------------------------------------------ controller
\* The controller (player thread) is not part of the worker's source; it is
\* the environment that the command table of the control protocol admits.

\* positions of the worker inside decodeStart before it has performed the
\* second STOP check (line 72)
BeforeStopCheck ==
    {"ds_song", "ds_latch", "ds_open", "ds_state", "ds_cmd", "ds_sig",
     "ready", "buffer", "seekable", "stop_chk"}

\* positions of the worker after it has announced START (state = START,
\* command cleared: lines 53-54) and before it leaves the readiness loop
InReadiness == {"ds_sig", "ready", "buffer"}

\* START, first step: the controller observes state = STOP and command = NONE
C_Observe ==
    /\ cpc = "idle"
    /\ cmds < MaxCmds
    /\ state = "STOP"
    /\ command = "NONE"
    /\ cpc' = "song"
    /\ cmds' = cmds + 1
    /\ UNCHANGED <<dcVars, latchVars, pc, localVars, fixedVars, histVars>>

\* START, second step: dc.next_song = song
C_WriteSong ==
    /\ cpc = "song"
    /\ \E s \in Songs : next_song' = s
    /\ cpc' = "start"
    /\ UNCHANGED <<command, state, error, current_song, seekable, latchVars,
                   pc, localVars, fixedVars, cmds, histVars>>

\* START, third step: dc.command = DECODE_COMMAND_START
C_WriteStart ==
    /\ cpc = "start"
    /\ command' = "START"
    /\ startPending' = TRUE
    /\ cpc' = "signal"
    /\ UNCHANGED <<state, error, next_song, current_song, seekable, latchVars,
                   pc, localVars, fixedVars, cmds, errorAtEntry, closes, invoked, probes,
                   bufCalls, exitPath, sigSinceRet, stopDuring, stopAt>>

\* SEEK: allowed while stopped (with a song to restart) or while decoding
C_Seek ==
    /\ cpc = "idle"
    /\ cmds < MaxCmds
    /\ state \in {"STOP", "DECODE"}
    /\ command = "NONE"
    /\ next_song # NoSong
    /\ command' = "SEEK"
    /\ cpc' = "signal"
    /\ cmds' = cmds + 1
    /\ UNCHANGED <<state, error, next_song, current_song, seekable, latchVars,
                   pc, localVars, fixedVars, histVars>>

\* STOP: allowed at any time; it overwrites whatever command is pending
C_Stop ==
    /\ cpc = "idle"
    /\ cmds < MaxCmds
    /\ command' = "STOP"
    /\ stopDuring' = (stopDuring \/ pc \in BeforeStopCheck)
    /\ stopAt' = IF ~stopAt.set /\ pc \in InReadiness /\ ~inStream.ready
                 THEN [set |-> TRUE, calls |-> bufCalls, error |-> error]
                 ELSE stopAt
    /\ startPending' = FALSE
    /\ cpc' = "signal"
    /\ cmds' = cmds + 1
    /\ UNCHANGED <<state, error, next_song, current_song, seekable, latchVars,
                   pc, localVars, fixedVars, errorAtEntry, closes, invoked, probes,
                   bufCalls, exitPath, sigSinceRet>>

\* after writing a command: notify_signal(&dc.notify)
C_Signal ==
    /\ cpc = "signal"
    /\ dcNotify' = TRUE
    /\ cpc' = "idle"
    /\ UNCHANGED <<dcVars, pcNotify, pc, localVars, fixedVars, cmds, histVars>>

\* notify_wait(&pc.notify): the controller consumes its latch
C_Wait ==
    /\ cpc = "idle"
    /\ pcNotify
    /\ pcNotify' = FALSE
    /\ UNCHANGED <<dcVars, dcNotify, pc, localVars, fixedVars, ctlVars, histVars>>

\* ----------------------------------------------------------- specification

Worker ==
    \/ W_Top \/ W_ClearStop \/ W_StopSignal \/ W_Wait \/ W_WaitSignal
    \/ DS_ReadSong \/ DS_Latch \/ DS_Open
    \/ DS_AnnounceState \/ DS_AnnounceCommand \/ DS_AnnounceSignal
    \/ DS_Ready \/ DS_Buffer \/ DS_Seekable \/ DS_StopCheck
    \/ DS_MimeLoop \/ DS_SuffixCheck \/ DS_SuffixLoop \/ DS_Mp3Fallback
    \/ DS_FileLoop \/ DS_PluginReturn \/ P_Initialized \/ P_Seek
    \/ DS_Classify \/ DS_Close \/ DS_StateStop \/ DS_CommandNone

Controller ==
    \/ C_Observe \/ C_WriteSong \/ C_WriteStart \/ C_Seek \/ C_Stop
    \/ C_Signal \/ C_Wait

Next == Worker \/ Controller

Spec == Init /\ [][Next]_vars

\* the worker thread is scheduled fairly: it takes a step whenever it can
\* (buffer and plugin calls return); the controller is under no obligation
FairSpec == Spec /\ WF_vars(Worker)

\* the controller requests another song: it writes dc.next_song, which it may
\* do whenever it likes (no lock protects the field), here also while the
\* worker is entering decodeStart
C_WriteNextSong ==
    /\ cpc = "idle"
    /\ cmds < MaxCmds
    /\ \E s \in Songs \ {next_song} : next_song' = s
    /\ cmds' = cmds + 1
    /\ UNCHANGED <<command, state, error, current_song, seekable, latchVars,
                   pc, localVars, fixedVars, cpc, histVars>>

\* the worker with a controller that also rewrites next_song at any time
QueueNext == Next \/ C_WriteNextSong

QueueSpec == Init /\ [][QueueNext]_vars

\* ------------------------------------------------------------ output sinks
\* AoOutputPlugin.cxx and PipeOutputPlugin.cxx: one sink, opened, played to
\* and closed by its playback thread.

\* how many frames a buffer handed to Play holds at most
MaxFrames == 3
\* how many times the sink is closed in one run
MaxCloses == 2

\* the audio formats a caller may request (the sample rate plays no part in
\* what the sinks compute)
AudioFormats ==
    [format : {"S8", "S16", "S24", "S32", "FLOAT"}, channels : 1..2]

\* bytes per sample of a sample format (24 bit samples are stored in 32 bits)
SampleSize(f) ==
    CASE f = "S8" -> 1
      [] f = "S16" -> 2
      [] OTHER -> 4

\* AudioFormat::GetFrameSize()
GetFrameSize(af) == SampleSize(af.format) * af.channels

\* configured values of "write_size" (block.GetPositiveValue: positive)
WriteSizes == {1, 3, 4, 6, 1000}

\* std::max
Max(a, b) == IF a >= b THEN a ELSE b

\* lines 158-174: the sample format the ao sink settles on
AoFormat(af) ==
    IF af.format \in {"S8", "S16"} THEN af ELSE [af EXCEPT !.format = "S16"]

\* AoMaxSize without the rounding down to whole frames
AoMaxSize_Unrounded(ws, fs) == Max(ws, fs)

\* line 181: max_size
AoMaxSize(ws, fs) == Max(ws \div fs, 1) * fs

\* lengths of the buffers handed to Play: whole frames of the opened format
PlayLens == { k * GetFrameSize(audio_format) : k \in 1..MaxFrames }

\* a long buffer handed to the ao sink's Play: 1024 frames (4096 bytes of
\* 16 bit stereo), more than any of WriteSizes
LongPlayLens == { 1024 * GetFrameSize(audio_format) }

\* a sink after its constructor has run
SinkInit ==
    /\ InitCommon
    /\ registry = <<>>
    /\ NoOptions("done")
    /\ sinkKind \in {"ao", "pipe"}
    /\ write_size \in IF sinkKind = "ao" THEN WriteSizes ELSE {0}
    /\ audio_format = NoFormat
    /\ frame_size = 0
    /\ max_size = 0
    /\ handle = "none"
    /\ releases = 0
    /\ lastPlay = NoPlay

\* what the backend's release function (ao_close, pclose) leaves behind: a
\* live handle is released; releasing a handle that was released already is
\* undefined, the call returns or the process dies
ReleaseOutcomes(h) ==
    IF h = "open" THEN {"closed"} ELSE {"closed", "crashed"}

\* AoOutput::Open, lines 153-190: ao_open_live returns a device or nullptr
AoOutput_Open ==
    /\ sinkKind = "ao"
    /\ handle # "open"
    /\ releases < MaxCloses
    /\ \E af \in AudioFormats :
         /\ audio_format' = AoFormat(af)
         /\ frame_size' = GetFrameSize(AoFormat(af))
         /\ max_size' = AoMaxSize(write_size, GetFrameSize(AoFormat(af)))
    /\ \E device \in {"nullptr", "device"} :
         handle' = IF device = "nullptr" THEN handle ELSE "open"
    /\ lastPlay' = NoPlay
    /\ UNCHANGED <<decoderVars, ctorVars, sinkKind, write_size, releases>>

\* AoOutput::Play, lines 198-216: ao_play returns 0 on failure and non-zero
\* once it has taken the whole span
AoOutput_Play ==
    /\ sinkKind = "ao"
    /\ handle = "open"
    /\ \E L \in PlayLens \cup LongPlayLens, r \in {0, 1} :
         LET n == IF L > max_size THEN max_size ELSE L IN
         lastPlay' = [len |-> L, submitted |-> n,
                      accepted |-> IF r = 0 THEN 0 ELSE n,
                      ret |-> IF r = 0 THEN 0 ELSE n,
                      threw |-> (r = 0)]
    /\ UNCHANGED <<decoderVars, ctorVars, sinkKind, write_size, audio_format, frame_size,
                   max_size, handle, releases>>

\* AoOutput::Close, lines 192-196: ao_close(device), whatever device holds.
\* After a Close the field still holds the device that was released, so a
\* further Close hands it to ao_close once more: the behaviour of that call is
\* undefined, it may return or bring the process down.
AoOutput_Close ==
    /\ sinkKind = "ao"
    /\ handle \in {"open", "closed"}
    /\ handle = "closed" => releases < MaxCloses
    /\ handle' \in ReleaseOutcomes(handle)
    /\ releases' = releases + 1
    /\ lastPlay' = NoPlay
    /\ UNCHANGED <<decoderVars, ctorVars, sinkKind, write_size, audio_format, frame_size,
                   max_size>>

\* PipeOutput::Open, lines 59-65: popen returns a stream or nullptr
PipeOutput_Open ==
    /\ sinkKind = "pipe"
    /\ handle # "open"
    /\ releases < MaxCloses
    /\ \E af \in AudioFormats : audio_format' = af
    /\ \E fh \in {"nullptr", "fh"} :
         handle' = IF fh = "nullptr" THEN handle ELSE "open"
    /\ lastPlay' = NoPlay
    /\ UNCHANGED <<decoderVars, ctorVars, sinkKind, write_size, frame_size, max_size,
                   releases>>

\* PipeOutput::Play, lines 67-75: fwrite returns how many bytes it has taken
PipeOutput_Play ==
    /\ sinkKind = "pipe"
    /\ handle = "open"
    /\ \E L \in PlayLens : \E nbytes \in 0..L :
         lastPlay' = [len |-> L, submitted |-> L, accepted |-> nbytes,
                      ret |-> nbytes, threw |-> (nbytes = 0)]
    /\ UNCHANGED <<decoderVars, ctorVars, sinkKind, write_size, audio_format, frame_size,
                   max_size, handle, releases>>

\* PipeOutput::Close, lines 44-46: pclose(fh), whatever fh holds; a further
\* Close hands the closed stream to pclose once more (undefined behaviour)
PipeOutput_Close ==
    /\ sinkKind = "pipe"
    /\ handle \in {"open", "closed"}
    /\ handle = "closed" => releases < MaxCloses
    /\ handle' \in ReleaseOutcomes(handle)
    /\ releases' = releases + 1
    /\ lastPlay' = NoPlay
    /\ UNCHANGED <<decoderVars, ctorVars, sinkKind, write_size, audio_format, frame_size,
                   max_size>>

SinkNext ==
    \/ AoOutput_Open \/ AoOutput_Play \/ AoOutput_Close
    \/ PipeOutput_Open \/ PipeOutput_Play \/ PipeOutput_Close

SinkSpec == SinkInit /\ [][SinkNext]_vars

\* ------------------------------------- the ao sink's constructor: options
\* AoOutputPlugin.cxx lines 134-145. Strings are sequences of characters.

\* how many spaces are placed at each of the four places of an entry
MaxPad == 1
\* how many entries the "options" value holds
MaxEntries == 2

\* n spaces
Pad(n) == [i \in 1..n |-> " "]

\* the entries of an "options" value as the configuration writes them: spaces,
\* key, spaces, '=', spaces, value, spaces
WellFormedEntries ==
    [pre : 0..MaxPad, k : {<<"k">>}, b : 0..MaxPad, eq : {TRUE},
     c : 0..MaxPad, v : {<<"v">>}, post : 0..MaxPad]

\* entries the constructor rejects: an empty key, and no '=' at all
MalformedEntries ==
    { [pre |-> 0, k |-> <<>>, b |-> 0, eq |-> TRUE, c |-> 0, v |-> <<"v">>,
       post |-> 0],
      [pre |-> 0, k |-> <<"k">>, b |-> 0, eq |-> FALSE, c |-> 0, v |-> <<>>,
       post |-> 0] }

OptionEntries == WellFormedEntries \cup MalformedEntries

\* the text of an entry
EntryText(e) ==
    Pad(e.pre) \o e.k \o Pad(e.b) \o (IF e.eq THEN <<"=">> ELSE <<>>)
        \o Pad(e.c) \o e.v \o Pad(e.post)

\* the "options" value: the entries, separated by semicolons
RECURSIVE OptionsValue(_)
OptionsValue(es) ==
    IF Len(es) = 1 THEN EntryText(es[1])
    ELSE EntryText(es[1]) \o <<";">> \o OptionsValue(Tail(es))

\* the sequences of 0..n elements of S
RECURSIVE SeqsUpTo(_, _)
SeqsUpTo(S, n) ==
    IF n = 0 THEN {<<>>}
    ELSE LET shorter == SeqsUpTo(S, n - 1) IN
         shorter \cup { Append(q, x) : q \in {t \in shorter : Len(t) = n - 1},
                                        x \in S }

\* Split(s, ch): s split at the first ch; without a ch the first part is all
\* of s and the second is a null view (found = FALSE)
Split(str, ch) ==
    LET at == {i \in 1..Len(str) : str[i] = ch} IN
    IF at = {} THEN [first |-> str, second |-> <<>>, found |-> FALSE]
    ELSE LET i == CHOOSE j \in at : \A l \in at : j <= l IN
         [first |-> SubSeq(str, 1, i - 1),
          second |-> SubSeq(str, i + 1, Len(str)),
          found |-> TRUE]

\* Strip(s): s without its leading and trailing whitespace
Strip(str) ==
    LET ns == {i \in 1..Len(str) : str[i] # " "} IN
    IF ns = {} THEN <<>>
    ELSE SubSeq(str, CHOOSE j \in ns : \A l \in ns : j <= l,
                     CHOOSE j \in ns : \A l \in ns : j >= l)

\* the constructor is entered: the initialiser list has set write_size, the
\* configuration block holds the "options" value (or none)
AoCtorInit ==
    /\ InitCommon
    /\ registry = <<>>
    /\ sinkKind = "ao"
    /\ write_size \in WriteSizes
    /\ audio_format = NoFormat
    /\ frame_size = 0
    /\ max_size = 0
    /\ handle = "none"
    /\ releases = 0
    /\ lastPlay = NoPlay
    /\ optionEntries \in SeqsUpTo(OptionEntries, MaxEntries)
    /\ optionRest = NoRest
    /\ options = <<>>
    /\ ctor = "start"

\* lines 134-136: value = block.GetBlockValue("options", nullptr), and the
\* start of the iteration over IterableSplitString(value, ';')
AoOutput_Options ==
    /\ ctor = "start"
    /\ IF optionEntries = <<>>
       THEN ctor' = "done" /\ UNCHANGED optionRest
       ELSE /\ optionRest' = [more |-> TRUE, str |-> OptionsValue(optionEntries)]
            /\ ctor' = "loop"
    /\ UNCHANGED <<decoderVars, optionEntries, options, sinkKind, write_size,
                   audio_format, frame_size, max_size, handle, releases,
                   lastPlay>>

\* line 137: the pair (n, v) of one entry i
OptionPair(i) == Split(Strip(i), "=")

\* lines 136-144: one round of the loop over the entries
AoOutput_Option ==
    /\ ctor = "loop"
    /\ LET it == Split(optionRest.str, ";")
           nv == OptionPair(it.first)
       IN IF nv.first = <<>> \/ ~nv.found
          THEN /\ ctor' = "threw"
               /\ UNCHANGED <<options, optionRest>>
          ELSE /\ options' = Append(options, <<nv.first, nv.second>>)
               /\ optionRest' = [more |-> it.found, str |-> it.second]
               /\ ctor' = IF it.found THEN "loop" ELSE "done"
    /\ UNCHANGED <<decoderVars, optionEntries, sinkKind, write_size,
                   audio_format, frame_size, max_size, handle, releases,
                   lastPlay>>

AoCtorNext == AoOutput_Options \/ AoOutput_Option

AoCtorSpec == AoCtorInit /\ [][AoCtorNext]_vars

\* ------------------------------------------- the dispatch, over registries

\* the controller has issued its one START (song written, command written,
\* latch signalled) and issues nothing more
DispatchInit ==
    /\ command = "START"
    /\ state = "STOP"
    /\ error = "NONE"
    /\ next_song \in Songs
    /\ current_song = NoSong
    /\ seekable = FALSE
    /\ dcNotify = TRUE
    /\ pcNotify = FALSE
    /\ pc = "top"
    /\ LocalsIdle
    /\ cpc = "idle"
    /\ cmds = MaxCmds
    /\ errorAtEntry = "NONE"
    /\ closes = 0
    /\ invoked = <<>>
    /\ probes = <<>>
    /\ bufCalls = 0
    /\ exitPath = "none"
    /\ sigSinceRet = FALSE
    /\ stopDuring = FALSE
    /\ stopAt = NoStopAt
    /\ startPending = TRUE
    /\ registry \in Registries
    /\ NoSink

DispatchNext ==
    \/ W_Top \/ W_Wait \/ W_WaitSignal
    \/ DS_ReadSong \/ DS_Latch \/ DS_Open
    \/ DS_AnnounceState \/ DS_AnnounceCommand \/ DS_AnnounceSignal
    \/ DS_Ready \/ DS_Buffer \/ DS_Seekable \/ DS_StopCheck
    \/ DS_MimeLoop \/ DS_SuffixCheck \/ DS_SuffixLoop \/ DS_Mp3Fallback
    \/ DS_FileLoop \/ DS_PluginReturn \/ P_Initialized
    \/ DS_Classify \/ DS_Close \/ DS_StateStop \/ DS_CommandNone

DispatchSpec == DispatchInit /\ [][DispatchNext]_vars

\* ================================================================ claims

\* decodeStart has finished its work and is at, or past, label stop_no_close
AtExit == pc \in {"stop_nc", "stop_cmd"} \/ (pc = "top" /\ exitPath # "none")

\* C1: on every exit path of decodeStart the worker writes state := STOP
\* before its last write command := NONE, so the assertion state = STOP at the
\* top of the loop of decoder_task never fails.
C1_AssertionNeverFails ==
    /\ pc = "top" => state = "STOP"
    /\ pc = "stop_cmd" => state = "STOP"

\* C1 witness: the worker is back at the top of its loop after a decodeStart
\* that had announced START and whose plugin failed
C1_Witness ==
    /\ pc = "top"
    /\ exitPath = "dispatch"
    /\ Len(invoked) = 1
    /\ error = "FILE"
    /\ state = "STOP"

\* C2: a stream that decodeStart opened is closed exactly once before
\* decodeStart returns, on every exit path; when the open fails it is never
\* closed.
C2_ClosedExactlyOnce ==
    /\ closes <= 1
    /\ AtExit => /\ closes = (IF exitPath = "open_fail" THEN 0 ELSE 1)
                 /\ ~inStream.open

\* C2 witness: decodeStart has returned after a file_decode dispatch, the
\* stream closed once (before the call)
C2_Witness ==
    /\ pc = "top"
    /\ exitPath = "dispatch"
    /\ Len(invoked) = 1
    /\ invoked[1].entry = "file"
    /\ closes = 1

\* the error field the dispatch result alone would determine
ErrorOfDispatch ==
    IF invoked = <<>> THEN "UNKTYPE"
    ELSE IF ret < 0 THEN "FILE" ELSE "NONE"

\* C3: after a decodeStart that reached the dispatch step, error is
\* determined by the dispatch result alone: UNKNOWN_TYPE if no plugin was
\* invoked, FILE if the plugin returned a negative result, NONE if it
\* returned 0, whatever error held before.
C3_ErrorFromDispatchAlone ==
    (pc \in {"stop", "stop_nc", "stop_cmd"} /\ exitPath = "dispatch")
        => error = ErrorOfDispatch

\* C4: when input_stream_buffer returns a negative value in the readiness
\* loop, decodeStart ends with error = FILE.
C4_BufferErrorIsFileError ==
    (AtExit /\ exitPath = "buf_err") => error = "FILE"

\* C5: decodeStart sets error to UNKNOWN_TYPE only when it invoked no plugin
\* decode entry point: the last lookup found no further candidate, and in the
\* URL branch no plugin named mp3 is registered.
C5_UnknownTypeOnlyWithoutPlugin ==
    [][(error' = "UNKTYPE" /\ error # "UNKTYPE")
         => /\ invoked = <<>>
            /\ plugin = NoPlugin
            /\ (~song_is_file(song) => decoder_plugin_from_name("mp3") = NoPlugin)
      ]_vars

\* C5 witness: a URL decodeStart has ended with UNKNOWN_TYPE although a
\* candidate plugin was registered (and skipped)
C5_Witness ==
    /\ pc = "stop"
    /\ exitPath = "dispatch"
    /\ error = "UNKTYPE"
    /\ ~song_is_file(song)
    /\ getSuffix(song) = "ogg"
    /\ Len(registry) = 2
    /\ invoked = <<>>

\* C6: a STOP that the controller writes after the worker has entered
\* decodeStart and before the second STOP check keeps decodeStart from
\* invoking any plugin.
C6_StopPreempts == stopDuring => invoked = <<>>

\* C7: a START that the controller wrote after observing state = STOP and
\* command = NONE stays in command until a decodeStart invocation consumes it
\* (or the controller itself replaces it by STOP).
C7_StartNeverLost == startPending => command = "START"

\* the worker is between its signal at START (line 55) and the write
\* state := STOP (line 161) of the same decodeStart
InWindow ==
    \/ pc \in {"ready", "buffer", "seekable", "stop_chk", "mime", "suffix_chk",
               "suffix", "mp3_chk", "file", "in_plugin", "classify", "stop"}
    \/ (pc = "stop_nc" /\ exitPath # "open_fail")

\* C8 as stated: between the signal at START and the write state := STOP the
\* worker writes neither current_song nor seekable.
C8_BothStable ==
    [][InWindow => (current_song' = current_song /\ seekable' = seekable)]_vars

\* C8 as amended: in that window current_song keeps its value, and seekable
\* changes only in the one step after the readiness loop (line 70), to the
\* stream's seekable flag.
C8_SongStableSeekableOnce ==
    [][InWindow =>
         /\ current_song' = current_song
         /\ (seekable' # seekable =>
                (pc = "seekable" /\ seekable' = inStream.seekable))
      ]_vars

\* C8 witness: line 70 has changed dc.seekable inside the window
C8_Witness ==
    /\ pc = "stop_chk"
    /\ seekable
    /\ current_song = song
    /\ current_song # NoSong

\* C9 as stated: after decodeStart the worker signals the controller in its
\* next idle iteration without a further signal on its own latch; so it is
\* never found blocked in notify_wait, with no signal pending or on its way,
\* before it has signalled.
C9_NeverBlockedBeforeSignal ==
    ~ /\ pc = "wait"
      /\ ~dcNotify
      /\ cpc = "idle"
      /\ exitPath # "none"
      /\ ~sigSinceRet

\* the case of C9 as amended arises: decodeStart has returned, the worker has
\* not signalled yet, and its latch is set or a STOP is pending
C9_Woken ==
    /\ pc = "top"
    /\ exitPath \notin {"none", "running"}
    /\ ~sigSinceRet
    /\ (dcNotify \/ command = "STOP")

\* C9 as amended: after decodeStart has returned, the worker eventually
\* signals the controller from its idle loop provided its own latch is
\* signalled or a STOP is pending.
C9_SignalsWhenWoken == C9_Woken ~> sigSinceRet

\* C9 witness: the idle loop has signalled the controller after a decodeStart
\* that ended with an open failure
C9_Witness ==
    /\ pc = "top"
    /\ exitPath = "open_fail"
    /\ sigSinceRet

\* C10: a Play that returns normally returns at most the length of src, a
\* multiple of the frame size of the opened format, and the number of bytes
\* the backend accepted.
C10_PlayCount ==
    (handle = "open" /\ lastPlay # NoPlay /\ ~lastPlay.threw)
        => /\ lastPlay.ret <= lastPlay.len
           /\ lastPlay.ret % GetFrameSize(audio_format) = 0
           /\ lastPlay.ret = lastPlay.accepted

\* C11: Close is idempotent for both sinks: a Close that follows another Close
\* with no Open in between releases nothing, so the backend handle obtained by
\* one Open is released exactly once: while the handle is closed, no step
\* calls the backend's release function.
C11_CloseIdempotent ==
    [][handle = "closed" => (releases' = releases /\ handle' # "crashed")]_vars

\* C12: for every entry of the "options" value built from a key, '=', a value
\* and spaces before the key, between key and '=', between '=' and value and
\* after the value, the pair passed to the backend is exactly (key, value),
\* without those spaces.
C12_OptionPairStripped ==
    \A i \in 1..Len(options) :
        options[i] = <<optionEntries[i].k, optionEntries[i].v>>

\* C13: in every decodeStart invocation at most one plugin decode entry point
\* is invoked: once a plugin has been invoked, no further entry point (decode
\* or probe) of any plugin is called in that invocation, whatever the plugin
\* returned.
C13_OneInvocation ==
    [][(invoked # <<>> /\ pc # "top")
          => (invoked' = invoked /\ probes' = probes)]_vars

\* C13 witness: the first MIME candidate has returned a hard failure and the
\* worker is at the classification, although a second MIME (and suffix)
\* candidate with stream_decode, URL-capable and without probe is registered
C13_Witness ==
    /\ pc = "classify"
    /\ ret < 0
    /\ Len(invoked) = 1
    /\ invoked[1].plugin = 1
    /\ phase = "mime"
    /\ Len(registry) = 2
    /\ registry[2].mime = inStream.mime
    /\ registry[2].suffix = getSuffix(song)
    /\ ~SkipUrl(registry[2])
    /\ ~registry[2].try_decode

\* the plugin has the file-capable bit in its stream_types
FileCapable(pl) == BitAnd(pl.stream_types, INPUT_PLUGIN_STREAM_FILE) # 0

\* C14: in the file branch only file-capable plugins are invoked: a
\* suffix-matched plugin whose stream_types lacks the file-capable bit is
\* skipped, and neither its try_decode nor its file_decode or stream_decode is
\* called.
C14_FileBranchOnlyFileCapable ==
    /\ \A i \in 1..Len(probes) :
          probes[i].phase = "file" => FileCapable(registry[probes[i].plugin])
    /\ (phase = "file" /\ pc = "in_plugin")
          => \A i \in 1..Len(invoked) : FileCapable(registry[invoked[i].plugin])

\* the registered plugins that accept the stream's MIME type / the suffix of
\* the song, by position in the registry
MimeCandidates ==
    IF inStream.mime = NoMime THEN {}
    ELSE {i \in 1..Len(registry) : registry[i].mime = inStream.mime}

SuffixCandidates ==
    IF getSuffix(song) = "" THEN {}
    ELSE {i \in 1..Len(registry) : registry[i].suffix = getSuffix(song)}

\* the plugins whose try_decode has returned false in probe ph
Rejected(ph) ==
    { probes[j].plugin :
        j \in {l \in 1..Len(probes) : probes[l].phase = ph /\ ~probes[l].result} }

\* the candidates of S that have stream_decode, are URL-capable and whose
\* try_decode has not returned false in probe ph
UrlEligible(S, ph) ==
    { i \in S : /\ registry[i].stream_decode
                /\ BitAnd(registry[i].stream_types, INPUT_PLUGIN_STREAM_URL) # 0
                /\ i \notin Rejected(ph) }

\* the first of a non-empty set of candidates, in registration order
Lowest(S) == CHOOSE i \in S : \A j \in S : i <= j

\* the current decodeStart is in (or past) the dispatch of a URL song
InUrlBranch ==
    /\ song # NoSong
    /\ ~song_is_file(song)
    /\ pc \in {"in_plugin", "classify", "stop", "stop_nc", "stop_cmd"}
    /\ exitPath \in {"running", "dispatch"}

\* C15: in the URL branch the invoked plugin is the first plugin, in
\* registration order, among those matching the MIME type that has
\* stream_decode, is URL-capable and whose try_decode is absent or returns
\* true; if the MIME probe invoked none, the first such plugin among those
\* matching the suffix; if still none, the plugin named mp3 if registered,
\* without capability check or probe; otherwise none. The suffix probe and
\* the mp3 fallback run only if no plugin was invoked before them.
C15_UrlDispatchOrder ==
    InUrlBranch =>
      LET byMime == UrlEligible(MimeCandidates, "mime")
          bySuffix == UrlEligible(SuffixCandidates, "suffix")
          mp3 == {i \in 1..Len(registry) : registry[i].name = "mp3"}
      IN IF invoked = <<>>
         THEN byMime = {} /\ bySuffix = {} /\ mp3 = {}
         ELSE LET p == invoked[1].plugin IN
              /\ invoked[1].entry = "stream"
              /\ registry[p].try_decode
                   => /\ probes # <<>>
                      /\ probes[Len(probes)] =
                           [plugin |-> p, phase |-> phase, open |-> TRUE,
                            result |-> TRUE]
              /\ CASE phase = "mime" ->
                         /\ byMime # {}
                         /\ p = Lowest(byMime)
                         /\ \A j \in 1..Len(probes) : probes[j].phase = "mime"
                     [] phase = "suffix" ->
                         /\ byMime = {}
                         /\ bySuffix # {}
                         /\ p = Lowest(bySuffix)
                     [] phase = "mp3" ->
                         /\ byMime = {}
                         /\ bySuffix = {}
                         /\ registry[p].name = "mp3"
                         /\ probes = <<>> \/ ~probes[Len(probes)].result
                     [] OTHER -> FALSE

\* C15 witness: the mp3 fallback is running after the one other plugin was
\* probed, and its try_decode returned false, in the MIME probe and again in
\* the suffix probe
C15_Witness ==
    /\ InUrlBranch
    /\ pc = "in_plugin"
    /\ phase = "mp3"
    /\ Len(probes) = 2
    /\ probes[1].phase = "mime"
    /\ probes[2].phase = "suffix"
    /\ registry[invoked[1].plugin].name = "mp3"

\* the current decodeStart has invoked a plugin in the file branch
InFileBranch ==
    /\ song # NoSong
    /\ song_is_file(song)
    /\ invoked # <<>>

\* C16: in the file branch, when the selected plugin has file_decode, the
\* input stream is closed before file_decode is invoked and is neither used
\* nor closed again afterwards; when it has only stream_decode, the stream is
\* open during stream_decode and closed after it returns. No try_decode and
\* no stream_decode is ever given a closed stream.
C16_CloseBeforeFileDecode ==
    /\ \A i \in 1..Len(probes) : probes[i].open
    /\ \A i \in 1..Len(invoked) : invoked[i].entry = "stream" => invoked[i].open
    /\ InFileBranch =>
         LET c == invoked[1] IN
         /\ Len(invoked) = 1
         /\ IF registry[c.plugin].file_decode
            THEN /\ c.entry = "file"
                 /\ ~c.open
                 /\ ~inStream.open
                 /\ closes = 1
            ELSE /\ c.entry = "stream"
                 /\ c.open
                 /\ pc \in {"in_plugin", "classify", "stop"}
                      => (inStream.open /\ closes = 0)
                 /\ pc \in {"stop_nc", "stop_cmd"}
                      => (~inStream.open /\ closes = 1)

\* C16 witness: file_decode of the second candidate has returned, the first
\* one having been probed on the open stream; the stream was closed once
C16_Witness ==
    /\ InFileBranch
    /\ pc = "stop_cmd"
    /\ invoked[1].entry = "file"
    /\ invoked[1].plugin = 2
    /\ ~invoked[1].open
    /\ Len(probes) >= 1
    /\ probes[1].open
    /\ closes = 1

\* the worker is in the dispatch of decodeStart
InDispatch ==
    pc \in {"mime", "suffix_chk", "suffix", "mp3_chk", "file", "in_plugin",
            "classify"}

\* C17: if the controller writes command := STOP after the worker has
\* announced start and while the stream is not yet ready, then decodeStart
\* makes at most one further buffer call, invokes no plugin, does not write
\* the error field, closes the stream and ends with state = STOP.
C17_StopDuringReadiness ==
    stopAt.set =>
      /\ bufCalls <= stopAt.calls + 1
      /\ ~InDispatch
      /\ invoked = <<>>
      /\ probes = <<>>
      /\ error = stopAt.error
      /\ AtExit => (closes = 1 /\ ~inStream.open)
      /\ pc \in {"stop_cmd", "top", "clr", "clr_sig", "wait", "wait_sig"}
           => state = "STOP"

\* C17 witness: the STOP arrived while the worker was in its last buffer
\* call; the call made the stream ready, the second check of the command
\* caught the STOP, and decodeStart has returned
C17_Witness ==
    /\ stopAt.set
    /\ bufCalls = stopAt.calls + 1
    /\ pc = "top"
    /\ exitPath = "stop2"
    /\ closes = 1
    /\ state = "STOP"

\* C18: after the ao sink's Open, max_size = max(1, write_size div frame_size)
\* * frame_size, with frame_size the frame size of the format after Open's
\* rewrite (S8 or S16); max_size is a positive multiple of frame_size; Play of
\* L bytes submits min(L, max_size) bytes to the backend and returns that
\* number.
C18_ChunkBound ==
    (sinkKind = "ao" /\ audio_format # NoFormat) =>
      /\ audio_format.format \in {"S8", "S16"}
      /\ frame_size = GetFrameSize(audio_format)
      /\ max_size = Max(1, write_size \div frame_size) * frame_size
      /\ max_size > 0
      /\ max_size % frame_size = 0
      /\ lastPlay # NoPlay =>
           /\ lastPlay.submitted =
                (IF lastPlay.len <= max_size THEN lastPlay.len ELSE max_size)
           /\ ~lastPlay.threw => lastPlay.ret = lastPlay.submitted

\* C18 witness: write_size = 1000, 16 bit stereo (frame_size = 4), a Play of
\* 4096 bytes has returned 1000
C18_Witness ==
    /\ sinkKind = "ao"
    /\ write_size = 1000
    /\ frame_size = 4
    /\ max_size = 1000
    /\ lastPlay.len = 4096
    /\ ~lastPlay.threw
    /\ lastPlay.ret = 1000

\* positions of the worker inside decodeStart after line 45
AfterLatch ==
    {"ds_open", "ds_state", "ds_cmd", "ds_sig", "ready", "buffer", "seekable",
     "stop_chk", "mime", "suffix_chk", "suffix", "mp3_chk", "file", "in_plugin",
     "classify", "stop", "stop_nc", "stop_cmd"}

\* C19: in every decodeStart invocation the song whose path or URL is computed
\* and opened as the input stream is the song that is latched into
\* current_song, also when the controller writes next_song while decodeStart
\* starts.
C19_OpenedSongIsLatchedSong ==
    pc \in AfterLatch =>
      /\ current_song = song
      /\ path_max_fs = TransportString(current_song)

\* C20: whenever decodeStart invokes a plugin's stream_decode or file_decode,
\* the decoder context passed to it has its plugin field set to that same
\* plugin, on all four invocation paths.
C20_ContextNamesPlugin ==
    \A i \in 1..Len(invoked) : invoked[i].ctx = invoked[i].plugin

====
